---------------------------- MODULE Spec2Model ----------------------------
(*************************************************************************)
(* Three-body simulation (src/script.js): the body registry built by     *)
(* createBodiesFromControls, the integrator updatePhysics with its       *)
(* per-body circular trail buffer, and the requestAnimationFrame loop    *)
(* driven by startSimulation / resetSimulation / animate.                *)
(*                                                                       *)
(* Numbers.  A JavaScript number held in the program state (a position   *)
(* or velocity component, a mass, a parsed input) is a fixed-point       *)
(* integer counting units of 1/ONE (20 fractional bits).  The            *)
(* intermediate values of the force computation (distanceSq,             *)
(* forceMagnitude, forceDirection, totalForce, acceleration) count       *)
(* units of 1/FONE (10 fractional bits), so that every product stays     *)
(* inside TLC's 32-bit integers.  Every operation rounds toward zero,    *)
(* where the program's IEEE doubles round to nearest.  A Float32Array    *)
(* slot holds the value rounded to a 24-bit significand (Fround), which  *)
(* is exact for this binary fixed point.                                 *)
(*************************************************************************)
EXTENDS Integers, Sequences, FiniteSets, TLC

VARIABLES
    bodies,            \* script.js:6    the body registry (sequence of body records)
    controls,          \* the value of the 21 input fields b<i>-<field> at the last click
    animationFrameId,  \* script.js:12   0 stands for undefined
    pending,           \* the browser's list of requested, not cancelled, frame callbacks
    nextHandle,        \* the handle the next requestAnimationFrame call returns
    created,           \* history: the bodies as createBodiesFromControls last built them
    recorded,          \* history: per body, its position at the end of each updatePhysics
    previous,          \* history: the bodies as the latest updatePhysics call found them
    frames,            \* history: animation frames the browser has run
    frameCalls,        \* history: updatePhysics invocations made by the latest frame
    kickoffs,          \* history: start/reset handler runs since the latest frame began
    physicsCalls       \* history: updatePhysics invocations since the latest frame began

vars == <<bodies, controls, animationFrameId, pending, nextHandle,
          created, recorded, previous, frames, frameCalls, kickoffs, physicsCalls>>

-----------------------------------------------------------------------------
(* Program constants *)

\* G = 9.8 and dt = 0.1 as fractions
G_num == 98
G_den == 10
dt_num == 1
dt_den == 10
default_mass == 300
default_speed_mutiplier == 12

\* The trail capacity.  script.js:10 sets it to 800; the model runs the same
\* code on a trail of a few points, so that a run fills the buffer and wraps
\* it within the frames TLC explores.  No definition depends on its value
\* other than through this name.
default_trail_length == 3

(* Fixed-point scales *)
ONE == 2^20
FONE == 2^10
SQ == (ONE \div FONE) * ONE       \* ONE * ONE / FONE

-----------------------------------------------------------------------------
(* Arithmetic *)

Abs(a) == IF a < 0 THEN -a ELSE a
Sgn(a) == IF a < 0 THEN -1 ELSE IF a > 0 THEN 1 ELSE 0

MaxInt == (2^30 - 1) + 2^30

\* <<quotient, remainder>> of (x + y) by c for naturals x, y < c, without
\* forming x + y
AddMod(x, y, c) == IF x >= c - y THEN <<1, x - (c - y)>> ELSE <<0, x + y>>

\* <<quotient, remainder>> of a * b by c for naturals; a * b is formed only
\* when it fits 32 bits, and else b is split at a power of two R:
\* a * b = (a * (b \div R)) * R + a * (b % R)
RECURSIVE MulDivNat(_, _, _)
MulDivNat(a, b, c) ==
    IF b = 0 \/ a <= MaxInt \div b THEN <<(a * b) \div c, (a * b) % c>>
    ELSE IF b = 2
    THEN LET t == AddMod(a % c, a % c, c)
         IN  <<2 * (a \div c) + t[1], t[2]>>
    ELSE LET R   == IF b > 2^16 THEN 2^16 ELSE IF b > 2^8 THEN 2^8
                    ELSE IF b > 2^4 THEN 2^4 ELSE IF b > 4 THEN 4 ELSE 2
             hi  == MulDivNat(a, b \div R, c)
             mid == MulDivNat(hi[2], R, c)
             lo  == MulDivNat(a, b % R, c)
             t   == AddMod(mid[2], lo[2], c)
         IN  <<hi[1] * R + mid[1] + lo[1] + t[1], t[2]>>

\* a * b / c rounded toward zero
MulDiv(a, b, c) ==
    Sgn(a) * Sgn(b) * Sgn(c)
    * MulDivNat(IF Abs(a) < Abs(b) THEN Abs(b) ELSE Abs(a),
                IF Abs(a) < Abs(b) THEN Abs(a) ELSE Abs(b), Abs(c))[1]

\* a * b / c rounded to nearest (a, b, c naturals)
MulDivRound(a, b, c) ==
    LET qr == MulDivNat(a, b, c)
    IN  IF 2 * qr[2] >= c THEN qr[1] + 1 ELSE qr[1]

\* The largest y = r + d * w with a digit d in 0..15 and y * y <= n
\* (y <= 46340 keeps y * y within 32 bits)
SqrtDigit(n, r, w) ==
    r + w * (CHOOSE d \in 0..15 :
                /\ r + d * w <= 46340
                /\ (r + d * w) * (r + d * w) <= n
                /\ \/ d = 15
                   \/ r + (d + 1) * w > 46340
                   \/ (r + (d + 1) * w) * (r + (d + 1) * w) > n)

\* Math.sqrt on a 1/FONE value: exact (rounded down) while n * FONE fits 32
\* bits, and else twice the root of the quarter
RECURSIVE Sqrt(_)
Sqrt(n) ==
    IF n <= MaxInt \div FONE
    THEN SqrtDigit(n * FONE, SqrtDigit(n * FONE, SqrtDigit(n * FONE,
             SqrtDigit(n * FONE, 0, 4096), 256), 16), 1)
    ELSE 2 * Sqrt(n \div 4)

\* The smallest s with m < 2^(24+s)
RECURSIVE ExcessBits(_, _)
ExcessBits(m, s) == IF m < 2^24 THEN s ELSE ExcessBits(m \div 2, s + 1)

\* Storing a number into a Float32Array slot: round to a 24-bit significand,
\* ties to even
Fround(n) ==
    LET m == Abs(n)
        s == ExcessBits(m, 0)
        q == m \div 2^s
        r == m % 2^s
        up == \/ 2 * r > 2^s
              \/ (2 * r = 2^s /\ q % 2 = 1)
    IN  IF s = 0 THEN n ELSE Sgn(n) * (IF up THEN q + 1 ELSE q) * 2^s

-----------------------------------------------------------------------------
(* Strings: an input field's value is a sequence of one-character strings *)

Digits == <<"0", "1", "2", "3", "4", "5", "6", "7", "8", "9">>
IsDigit(c) == \E d \in 1..10 : Digits[d] = c
DigitVal(c) == (CHOOSE d \in 1..10 : Digits[d] = c) - 1

RECURSIVE SkipSpaces(_, _)
SkipSpaces(s, i) ==
    IF i <= Len(s) /\ s[i] = " " THEN SkipSpaces(s, i + 1) ELSE i

\* the first index >= i of s that holds no digit
RECURSIVE DigitRunEnd(_, _)
DigitRunEnd(s, i) ==
    IF i <= Len(s) /\ IsDigit(s[i]) THEN DigitRunEnd(s, i + 1) ELSE i

\* the decimal value of the digits s[i..j-1]
RECURSIVE DigitsValue(_, _, _)
DigitsValue(s, i, j) ==
    IF j <= i THEN 0 ELSE 10 * DigitsValue(s, i, j - 1) + DigitVal(s[j - 1])

Min(a, b) == IF a < b THEN a ELSE b

NaN == [nan |-> TRUE, val |-> 0]
Num(n) == [nan |-> FALSE, val |-> n]

\* parseFloat: leading blanks, an optional sign, the longest prefix
\* digits [. digits]; NaN when that prefix holds no digit.  The value is the
\* nearest fixed-point number (the first 9 fraction digits decide it).
ParseFloat(s) ==
    LET p0      == SkipSpaces(s, 1)
        neg     == p0 <= Len(s) /\ s[p0] = "-"
        signed  == p0 <= Len(s) /\ s[p0] \in {"-", "+"}
        p1      == IF signed THEN p0 + 1 ELSE p0
        p2      == DigitRunEnd(s, p1)
        hasDot  == p2 <= Len(s) /\ s[p2] = "."
        p3      == IF hasDot THEN DigitRunEnd(s, p2 + 1) ELSE p2
        nFrac   == IF hasDot THEN Min(p3 - (p2 + 1), 9) ELSE 0
        int     == DigitsValue(s, p1, p2)
        frac    == DigitsValue(s, p2 + 1, p2 + 1 + nFrac)
        mag     == int * ONE + MulDivRound(frac, ONE, 10^nFrac)
    IN  IF p2 = p1 /\ p3 <= p2 + 1 THEN NaN
        ELSE Num(IF neg THEN -mag ELSE mag)

RECURSIVE IntDigits(_)
IntDigits(m) ==
    IF m < 10 THEN <<Digits[m + 1]>>
    ELSE Append(IntDigits(m \div 10), Digits[(m % 10) + 1])

\* the fraction f / ONE as decimal digits, at most k of them
RECURSIVE FracDigits(_, _)
FracDigits(f, k) ==
    IF f = 0 \/ k = 0 THEN <<>>
    ELSE <<Digits[((10 * f) \div ONE) + 1]>> \o FracDigits((10 * f) % ONE, k - 1)

\* Number-to-string conversion of `element.value = number`
NumberToString(n) ==
    LET m  == Abs(n)
        fd == FracDigits(m % ONE, 9)
    IN  (IF n < 0 THEN <<"-">> ELSE <<>>)
        \o IntDigits(m \div ONE)
        \o (IF fd = <<>> THEN <<>> ELSE <<".">> \o fd)

\* JavaScript's `a || b` on numbers: b when a is NaN or 0
Truthy(r) == ~r.nan /\ r.val # 0
OrDefault(r, d) == IF Truthy(r) THEN r.val ELSE d

-----------------------------------------------------------------------------
(* Vectors (THREE.Vector3): triples of numbers *)

Vadd(a, b) == <<a[1] + b[1], a[2] + b[2], a[3] + b[3]>>
Vsub(a, b) == <<a[1] - b[1], a[2] - b[2], a[3] - b[3]>>
ZeroVector == <<0, 0, 0>>

\* Vector3.lengthSq of a difference of positions, in units of 1/FONE
LengthSq(d) == MulDiv(d[1], d[1], SQ) + MulDiv(d[2], d[2], SQ) + MulDiv(d[3], d[3], SQ)

\* Vector3.normalize: divideScalar(length() || 1); the unit vector in 1/FONE
Normalize(d) ==
    LET OrOne(length) == IF length = 0 THEN FONE ELSE length
        DivideScalar(divisor) ==
            <<MulDiv(d[1], 1, divisor), MulDiv(d[2], 1, divisor), MulDiv(d[3], 1, divisor)>>
    IN  DivideScalar(OrOne(Sqrt(LengthSq(d))))

-----------------------------------------------------------------------------
(* createBodiesFromControls *)

Fields == {"posX", "posY", "posZ", "velX", "velY", "velZ", "mass"}

\* A fresh Float32Array(default_trail_length * 3)
Float32Array == [k \in 1..(default_trail_length * 3) |-> 0]

\* (Math.random() - 0.5) * 20, u the value Math.random() returns
randomOffset(u) == (u - ONE \div 2) * 20

\* Math.random() * default_speed_mutiplier + 0.5
randomSpeed(u) == u * default_speed_mutiplier + ONE \div 2

\* bodies.forEach(scene.remove ...); bodies = []; trails = []
ClearBodies(old) == << >>

\* The body the loop pushes for i: each field is the parsed input, or its
\* default when the parsed input is NaN or 0 (`parseFloat(...) || default`).
\* rnd.u[i] are the six Math.random() values of the field defaults,
\* rnd.dir[i] the unit vector randomDirection() returns.
NewBody(i, ctl, rnd) ==
    LET u    == rnd.u[i]
        posX == OrDefault(ParseFloat(ctl[i].posX),
                          IF i = 1 THEN -50 * ONE + randomOffset(u[1])
                          ELSE IF i = 2 THEN 50 * ONE + randomOffset(u[1])
                          ELSE randomOffset(u[1]))
        posY == OrDefault(ParseFloat(ctl[i].posY),
                          IF i = 3 THEN 50 * ONE + randomOffset(u[2])
                          ELSE randomOffset(u[2]))
        posZ == OrDefault(ParseFloat(ctl[i].posZ), randomOffset(u[3]))
        dir  == rnd.dir[i]
        velX == OrDefault(ParseFloat(ctl[i].velX), MulDiv(dir[1], randomSpeed(u[4]), ONE))
        velY == OrDefault(ParseFloat(ctl[i].velY), MulDiv(dir[2], randomSpeed(u[5]), ONE))
        velZ == OrDefault(ParseFloat(ctl[i].velZ), MulDiv(dir[3], randomSpeed(u[6]), ONE))
        mass == OrDefault(ParseFloat(ctl[i].mass), default_mass * ONE)
    IN  [ position         |-> <<posX, posY, posZ>>,   \* mesh.position
          velocity         |-> <<velX, velY, velZ>>,
          mass             |-> mass,
          displayPositions |-> Float32Array,           \* trail.geometry.attributes.position.array
          drawRange        |-> 0,
          trailPoints      |-> Float32Array,
          trailIndex       |-> 0,
          trailPointsCount |-> 0 ]

RECURSIVE CreateLoop(_, _, _, _)
CreateLoop(bs, i, ctl, rnd) ==
    IF i > 3 THEN bs
    ELSE CreateLoop(Append(bs, NewBody(i, ctl, rnd)), i + 1, ctl, rnd)

\* Variant: bodies that already exist are kept, trails included
createBodiesKeepsExisting(old, ctl, rnd) ==
    IF Len(old) > 0 THEN old ELSE CreateLoop(<< >>, 1, ctl, rnd)

createBodiesFromControls(old, ctl, rnd) == CreateLoop(ClearBodies(old), 1, ctl, rnd)

-----------------------------------------------------------------------------
(* updatePhysics *)

\* Variant: only a zero distance is skipped
TooCloseOnlyAtZero(distanceSq) == distanceSq = 0

\* `if (distanceSq < 1) continue`
TooClose(distanceSq) == distanceSq < FONE

\* One pass of the inner loop over j: the pair's force added to totalForce
PairForce(bodyA, bodyB, totalForce) ==
    LET diff == Vsub(bodyB.position, bodyA.position)
        gma  == MulDiv(bodyA.mass, G_num, G_den * (ONE \div FONE))
        ForceMagnitude(distanceSq) ==
            MulDiv(MulDiv(gma, bodyB.mass, ONE), FONE, distanceSq)
        MultiplyScalar(forceDirection, forceMagnitude) ==
            << MulDiv(forceDirection[1], forceMagnitude, FONE),
               MulDiv(forceDirection[2], forceMagnitude, FONE),
               MulDiv(forceDirection[3], forceMagnitude, FONE) >>
        Added(distanceSq) ==
            IF TooClose(distanceSq) THEN totalForce
            ELSE Vadd(totalForce,
                      MultiplyScalar(Normalize(diff), ForceMagnitude(distanceSq)))
    IN  Added(LengthSq(diff))

RECURSIVE InnerLoop(_, _, _, _)
InnerLoop(bs, i, j, totalForce) ==
    IF j > Len(bs) THEN totalForce
    ELSE IF i = j THEN InnerLoop(bs, i, j + 1, totalForce)
    ELSE InnerLoop(bs, i, j + 1, PairForce(bs[i], bs[j], totalForce))

\* bodyA.velocity after the body of the outer loop for i
VelocityAfter(bs, i) ==
    LET Acceleration(totalForce) ==
            << MulDiv(totalForce[1], ONE, bs[i].mass),
               MulDiv(totalForce[2], ONE, bs[i].mass),
               MulDiv(totalForce[3], ONE, bs[i].mass) >>
        TimesDt(acceleration) ==
            << MulDiv(acceleration[1], dt_num * (ONE \div FONE), dt_den),
               MulDiv(acceleration[2], dt_num * (ONE \div FONE), dt_den),
               MulDiv(acceleration[3], dt_num * (ONE \div FONE), dt_den) >>
    IN  Vadd(bs[i].velocity, TimesDt(Acceleration(InnerLoop(bs, i, 1, ZeroVector))))

\* Variant: the position is advanced in the same pass as the velocity
UpdateVelocityAndPosition(bs, i) ==
    LET Both(velocity) ==
            [bs EXCEPT ![i].velocity = velocity,
                       ![i].position =
                           Vadd(@, << MulDiv(velocity[1], dt_num, dt_den),
                                      MulDiv(velocity[2], dt_num, dt_den),
                                      MulDiv(velocity[3], dt_num, dt_den) >>)]
    IN  Both(VelocityAfter(bs, i))

\* The body of the outer loop for i: bodyA's velocity updated in place
UpdateVelocity(bs, i) == [bs EXCEPT ![i].velocity = VelocityAfter(bs, i)]

\* body.mesh.position.add(body.velocity.clone().multiplyScalar(dt))
MovePosition(body) ==
    [body EXCEPT !.position =
        Vadd(@, << MulDiv(body.velocity[1], dt_num, dt_den),
                   MulDiv(body.velocity[2], dt_num, dt_den),
                   MulDiv(body.velocity[3], dt_num, dt_den) >>)]

\* body.trailPoints[body.trailIndex * 3 + c] = body.mesh.position.{x,y,z}
StorePoint(body) ==
    [body EXCEPT !.trailPoints =
        [@ EXCEPT ![body.trailIndex * 3 + 1] = Fround(body.position[1]),
                  ![body.trailIndex * 3 + 2] = Fround(body.position[2]),
                  ![body.trailIndex * 3 + 3] = Fround(body.position[3])]]

\* Variant: the index is not reduced modulo the capacity
NextTrailIndexNoWrap(trailIndex) == trailIndex + 1

\* body.trailIndex = (body.trailIndex + 1) % default_trail_length
NextTrailIndex(trailIndex) == (trailIndex + 1) % default_trail_length

\* if (body.trailPointsCount < default_trail_length) body.trailPointsCount++
NextTrailCount(trailPointsCount) ==
    IF trailPointsCount < default_trail_length THEN trailPointsCount + 1
    ELSE trailPointsCount

\* Variant: the copy always starts at trailIndex, full buffer or not
SourceIdxAlwaysFromIndex(body, k) == (body.trailIndex + k) % default_trail_length

\* Variant: the copy always starts at slot 0, full buffer or not
SourceIdxAlwaysFromZero(body, k) == k

\* the slot of trailPoints copied to display point k
SourceIdx(body, k) ==
    IF body.trailPointsCount = default_trail_length
    THEN (body.trailIndex + k) % default_trail_length
    ELSE k

\* for (k = 0; k < trailPointsCount; k++) displayPositions[k*3+c] = trailPoints[sourceIdx*3+c];
\* setDrawRange(0, trailPointsCount)
CopyToDisplay(body) ==
    [body EXCEPT
        !.displayPositions =
            [p \in 1..(3 * body.trailPointsCount) |->
                body.trailPoints[SourceIdx(body, (p - 1) \div 3) * 3 + ((p - 1) % 3) + 1]]
            \o SubSeq(@, 3 * body.trailPointsCount + 1, Len(@)),
        !.drawRange = body.trailPointsCount]

\* The body of bodies.forEach in the second half of updatePhysics
UpdatePosition(body) ==
    LET moved   == MovePosition(body)
        stored  == StorePoint(moved)
        advance == [stored EXCEPT !.trailIndex = NextTrailIndex(@),
                                  !.trailPointsCount = NextTrailCount(@)]
    IN  CopyToDisplay(advance)

RECURSIVE ForceLoop(_, _)
ForceLoop(bs, i) ==
    IF i > Len(bs) THEN bs ELSE ForceLoop(UpdateVelocity(bs, i), i + 1)

RECURSIVE PositionLoop(_, _)
PositionLoop(bs, i) ==
    IF i > Len(bs) THEN bs
    ELSE PositionLoop([bs EXCEPT ![i] = UpdatePosition(@)], i + 1)

\* Variant: the positions advance before the velocities are updated
updatePhysicsPositionsFirst(bs) == ForceLoop(PositionLoop(bs, 1), 1)

updatePhysics(bs) == PositionLoop(ForceLoop(bs, 1), 1)

-----------------------------------------------------------------------------
(* The handlers.  A handler is a function of the program state st, a record *)
(* with one field per variable.                                             *)

\* requestAnimationFrame(animate): the browser lists the callback and returns
\* a fresh non-zero handle
RequestAnimationFrame(st) ==
    [st EXCEPT !.animationFrameId = st.nextHandle,
               !.pending = @ \cup {st.nextHandle},
               !.nextHandle = @ + 1]

\* Variant: the pending callback is not cancelled
CancelNothing(st) == st

\* if (animationFrameId) cancelAnimationFrame(animationFrameId)
CancelPending(st) ==
    IF st.animationFrameId # 0
    THEN [st EXCEPT !.pending = @ \ {st.animationFrameId}]
    ELSE st

\* The call updatePhysics() and what the history variables keep of it
CallUpdatePhysics(st) ==
    LET Returned(after) ==
            [st EXCEPT !.bodies = after,
                       !.previous = st.bodies,
                       !.recorded = [i \in 1..Len(after) |-> Append(@[i], after[i].position)],
                       !.physicsCalls = @ + 1]
    IN  Returned(updatePhysics(st.bodies))

animate(st) ==
    LET Rest(requested) ==
            IF Len(requested.bodies) > 0 THEN CallUpdatePhysics(requested) ELSE requested
    IN  Rest(RequestAnimationFrame(st))

\* The call createBodiesFromControls() reading the input fields ctl
CallCreateBodies(st, ctl, rnd) ==
    LET Returned(new) ==
            [st EXCEPT !.bodies = new,
                       !.controls = ctl,
                       !.created = new,
                       !.recorded = [i \in 1..Len(new) |-> << >>]]
    IN  Returned(createBodiesFromControls(st.bodies, ctl, rnd))

startSimulation(st, ctl, rnd) ==
    animate(CallCreateBodies(CancelPending([st EXCEPT !.kickoffs = @ + 1]), ctl, rnd))

\* The 21 values resetSimulation writes into the input fields; rr holds its
\* Math.random() values and random directions
ResetControls(rr) ==
    [i \in 1..3 |->
        [ posX |-> NumberToString(IF i = 1 THEN -50 * ONE + randomOffset(rr.u[i][1])
                                  ELSE IF i = 2 THEN 50 * ONE + randomOffset(rr.u[i][1])
                                  ELSE randomOffset(rr.u[i][1])),
          posY |-> NumberToString(IF i = 3 THEN 50 * ONE + randomOffset(rr.u[i][2])
                                  ELSE randomOffset(rr.u[i][2])),
          posZ |-> NumberToString(randomOffset(rr.u[i][3])),
          velX |-> NumberToString(MulDiv(rr.dir[i][1], randomSpeed(rr.u[i][4]), ONE)),
          velY |-> NumberToString(MulDiv(rr.dir[i][2], randomSpeed(rr.u[i][5]), ONE)),
          velZ |-> NumberToString(MulDiv(rr.dir[i][3], randomSpeed(rr.u[i][6]), ONE)),
          mass |-> NumberToString(default_mass * ONE) ]]

resetSimulation(st, rr, rnd) ==
    animate(CallCreateBodies(CancelPending([st EXCEPT !.kickoffs = @ + 1]), ResetControls(rr), rnd))

\* The browser runs the listed callbacks hs (a set of handles), oldest first
RECURSIVE RunCallbacks(_, _)
RunCallbacks(st, hs) ==
    IF hs = {} THEN st
    ELSE LET h == CHOOSE x \in hs : \A y \in hs : x <= y
         IN  RunCallbacks(animate(st), hs \ {h})

\* One animation frame: the callbacks listed so far are taken off the list
\* and run
animationFrame(st) ==
    LET Done(ran) == [ran EXCEPT !.frames = @ + 1, !.frameCalls = ran.physicsCalls]
    IN  Done(RunCallbacks([st EXCEPT !.pending = {}, !.physicsCalls = 0, !.kickoffs = 0],
                          st.pending))

-----------------------------------------------------------------------------
(* Bounds and inputs *)

MaxHandle == 5        \* Spec: requestAnimationFrame calls explored
MaxPhysSteps == 3     \* SpecPhys: updatePhysics calls per body list

\* n / d as a number
Frac(n, d) == (n * ONE) \div d

\* Values of Math.random() and of randomDirection() for one run of a handler:
\* u[i] the six draws behind body i's field defaults, dir[i] its direction
DrawsA ==
    [ u   |-> << <<Frac(13, 16), Frac(12, 16), Frac(15, 16), Frac(8, 16), Frac(3, 16), Frac(10, 16)>>,
                 <<Frac(9, 16), Frac(13, 16), Frac(2, 16), Frac(6, 16), Frac(1, 16), Frac(7, 16)>>,
                 <<Frac(2, 16), Frac(7, 16), Frac(14, 16), Frac(13, 16), Frac(3, 16), Frac(14, 16)>> >>,
      dir |-> << <<-Frac(2, 7), -Frac(3, 7), Frac(6, 7)>>, <<Frac(6, 7), Frac(2, 7), Frac(3, 7)>>,
                 <<Frac(3, 7), Frac(6, 7), -Frac(2, 7)>> >> ]

DrawsB ==
    [ u   |-> << <<Frac(8, 16), Frac(12, 16), Frac(6, 16), Frac(8, 16), Frac(8, 16), Frac(2, 16)>>,
                 <<Frac(1, 16), Frac(5, 16), Frac(7, 16), Frac(6, 16), Frac(7, 16), Frac(13, 16)>>,
                 <<Frac(4, 16), Frac(5, 16), Frac(2, 16), Frac(5, 16), Frac(15, 16), Frac(12, 16)>> >>,
      dir |-> << <<Frac(1, 3), Frac(2, 3), Frac(2, 3)>>, <<-Frac(2, 3), -Frac(1, 3), -Frac(2, 3)>>,
                 <<Frac(2, 3), -Frac(2, 3), Frac(1, 3)>> >> ]

Draws == {DrawsA, DrawsB}

\* The draws of one resetSimulation call: those of its own field values and
\* those of the createBodiesFromControls call it makes
ResetDraws == {<<DrawsA, DrawsB>>, <<DrawsB, DrawsA>>}

Row(px, py, pz, vx, vy, vz, m) ==
    [posX |-> px, posY |-> py, posZ |-> pz, velX |-> vx, velY |-> vy, velZ |-> vz, mass |-> m]

\* What the operator may have typed into the 21 fields before a Start click
TypedFar ==
    << Row(<<"-", "5", "0">>, <<"1">>, <<"-", "2">>, <<"-", "1", ".", "5">>, <<"0", ".", "2", "5">>, <<"1">>, <<"3", "0", "0">>),
       Row(<<"5", "0">>, <<"-", "1">>, <<"2">>, <<"1", ".", "5">>, <<"0", ".", "5">>, <<"-", "1">>, <<"1", "5", "0">>),
       Row(<<"1">>, <<"5", "0">>, <<"3">>, <<"0", ".", "5">>, <<"2">>, <<"1">>, <<"1">>) >>

TypedSamePlace ==
    << Row(<<"5">>, <<"5">>, <<"5">>, <<"1">>, <<"2">>, <<"-", "1">>, <<"3", "0", "0">>),
       Row(<<"5">>, <<"5">>, <<"5">>, <<"-", "1">>, <<"1">>, <<"1">>, <<"3", "0", "0">>),
       Row(<<"5", ".", "5">>, <<"5">>, <<"5">>, <<"1">>, <<"1">>, <<"2">>, <<"2">>) >>

TypedZeroAndBlank ==
    << Row(<<"0">>, << >>, <<"a", "b", "c">>, <<"0">>, <<"-", "0">>, <<"x", "1">>, <<"0">>),
       Row(<<"4", "0">>, <<"0", ".", "0">>, <<"-">>, <<"1">>, <<".">>, <<"2">>, << >>),
       Row(<<"1">>, <<"6", "0">>, <<"1">>, <<"1">>, <<"1">>, <<"0">>, <<"m">>) >>

TypedNegativeMass ==
    << Row(<<"-", "4", "0">>, <<"1">>, <<"1">>, <<"1">>, <<"1">>, <<"1">>, <<"-", "5">>),
       Row(<<"4", "0">>, <<"1">>, <<"1">>, <<"1">>, <<"1">>, <<"1">>, <<"3", "0", "0">>),
       Row(<<"1">>, <<"4", "0">>, <<"1">>, <<"1">>, <<"1">>, <<"1">>, <<"0", ".", "5">>) >>

TypedPrefixes ==
    << Row(<<" ", "7">>, <<"3", "x">>, <<"+", "2", ".", "5">>, <<".", "5">>, <<"1", ".">>, <<"-", ".", "2", "5">>, <<"1", "0", "k", "g">>),
       Row(<<"6", "0", ".", "1", "2", "5">>, <<"1">>, <<"1">>, <<"1">>, <<"1">>, <<"1">>, <<"2", "0">>),
       Row(<<"1">>, <<"-", "6", "0">>, <<"1">>, <<"1">>, <<"1">>, <<"1">>, <<" ", " ", "5">>) >>

Typed == {TypedFar, TypedSamePlace, TypedZeroAndBlank, TypedNegativeMass, TypedPrefixes}

-----------------------------------------------------------------------------
(* The state machine *)

Current ==
    [ bodies |-> bodies, controls |-> controls, animationFrameId |-> animationFrameId,
      pending |-> pending, nextHandle |-> nextHandle, created |-> created,
      recorded |-> recorded, previous |-> previous, frames |-> frames,
      frameCalls |-> frameCalls, kickoffs |-> kickoffs, physicsCalls |-> physicsCalls ]

\* The state when init() reaches its call of resetSimulation
Loaded ==
    [ bodies |-> << >>, controls |-> << >>, animationFrameId |-> 0,
      pending |-> {}, nextHandle |-> 1, created |-> << >>,
      recorded |-> << >>, previous |-> << >>, frames |-> 0,
      frameCalls |-> 0, kickoffs |-> 0, physicsCalls |-> 0 ]

IsState(st) ==
    /\ bodies = st.bodies
    /\ controls = st.controls
    /\ animationFrameId = st.animationFrameId
    /\ pending = st.pending
    /\ nextHandle = st.nextHandle
    /\ created = st.created
    /\ recorded = st.recorded
    /\ previous = st.previous
    /\ frames = st.frames
    /\ frameCalls = st.frameCalls
    /\ kickoffs = st.kickoffs
    /\ physicsCalls = st.physicsCalls

Becomes(st) ==
    /\ bodies' = st.bodies
    /\ controls' = st.controls
    /\ animationFrameId' = st.animationFrameId
    /\ pending' = st.pending
    /\ nextHandle' = st.nextHandle
    /\ created' = st.created
    /\ recorded' = st.recorded
    /\ previous' = st.previous
    /\ frames' = st.frames
    /\ frameCalls' = st.frameCalls
    /\ kickoffs' = st.kickoffs
    /\ physicsCalls' = st.physicsCalls

\* init(): the page has loaded and resetSimulation has run once
Init == \E d \in ResetDraws : IsState(resetSimulation(Loaded, d[1], d[2]))

\* A click on Start, the fields holding what reset wrote or what was typed
StartClick ==
    /\ nextHandle <= MaxHandle
    /\ \E ctl \in Typed \cup {controls}, rnd \in Draws :
          LET st == startSimulation(Current, ctl, rnd) IN Becomes(st)

\* A click on Reset
ResetClick ==
    /\ nextHandle <= MaxHandle
    /\ \E d \in ResetDraws : LET st == resetSimulation(Current, d[1], d[2]) IN Becomes(st)

\* The browser runs an animation frame
AnimationFrame ==
    /\ nextHandle <= MaxHandle
    /\ pending # {}
    /\ LET st == animationFrame(Current) IN Becomes(st)

Next == StartClick \/ ResetClick \/ AnimationFrame

Spec == Init /\ [][Next]_vars

-----------------------------------------------------------------------------
(* updatePhysics on its own: body lists of any length and order *)

\* A body as the registry holds it when created: lines 106-114 with the
\* given position, velocity and mass
PhysBody(position, velocity, mass) ==
    [ position         |-> position,
      velocity         |-> velocity,
      mass             |-> mass,
      displayPositions |-> Float32Array,
      drawRange        |-> 0,
      trailPoints      |-> Float32Array,
      trailIndex       |-> 0,
      trailPointsCount |-> 0 ]

\* The two bodies of the scenario: mass 300 at (-50,0,0) and (50,0,0), at rest
ScenarioLeft  == PhysBody(<<-50 * ONE, 0, 0>>, ZeroVector, 300 * ONE)
ScenarioRight == PhysBody(<<50 * ONE, 0, 0>>, ZeroVector, 300 * ONE)

PhysBodies ==
    { ScenarioLeft,
      ScenarioRight,
      \* at the very place of ScenarioLeft
      PhysBody(<<-50 * ONE, 0, 0>>, <<ONE, Frac(1, 2), 0>>, 2 * ONE),
      \* closer than 1 to ScenarioLeft
      PhysBody(<<-50 * ONE + Frac(1, 2), Frac(1, 4), 0>>, <<0, 0, -ONE>>, 3 * ONE),
      \* at distance 1 from ScenarioLeft
      PhysBody(<<-51 * ONE, 0, 0>>, <<0, Frac(1, 4), 0>>, 300 * ONE),
      PhysBody(<<3 * ONE, 40 * ONE, -4 * ONE>>, <<-ONE, 0, Frac(1, 2)>>, 150 * ONE) }

\* Every list of one, two or three different bodies, in every order
PhysLists ==
    { <<a>> : a \in PhysBodies }
    \cup { bs \in { <<a, b>> : a \in PhysBodies, b \in PhysBodies } : bs[1] # bs[2] }
    \cup { bs \in { <<a, b, c>> : a \in PhysBodies, b \in PhysBodies, c \in PhysBodies } :
             bs[1] # bs[2] /\ bs[1] # bs[3] /\ bs[2] # bs[3] }

InitPhys ==
    \E bs \in PhysLists :
        IsState([Loaded EXCEPT !.bodies = bs, !.created = bs,
                               !.recorded = [i \in 1..Len(bs) |-> << >>]])

PhysStep ==
    /\ \A i \in 1..Len(recorded) : Len(recorded[i]) < MaxPhysSteps
    /\ LET st == CallUpdatePhysics(Current) IN Becomes(st)

NextPhys == PhysStep

SpecPhys == InitPhys /\ [][NextPhys]_vars

-----------------------------------------------------------------------------
(* Properties *)

\* The trail read-out of a body: the points of the display buffer inside the
\* draw range
ReadOut(body) ==
    [k \in 1..body.drawRange |->
        << body.displayPositions[3 * k - 2],
           body.displayPositions[3 * k - 1],
           body.displayPositions[3 * k] >>]

\* A position as a Float32Array holds it
Point32(p) == <<Fround(p[1]), Fround(p[2]), Fround(p[3])>>

\* updatePhysics calls since body i was created
Steps(i) == Len(recorded[i])

\* The state is the result of an updatePhysics call on `previous`
Stepped == Len(previous) > 0 /\ Len(previous) = Len(bodies)

\* C1 as stated: up to C steps after a body's creation, the read-out is the
\* list of the positions the body had at the end of each step.
C1_ReadOutIsPositionHistory ==
    \A i \in 1..Len(bodies) :
        Steps(i) <= default_trail_length => ReadOut(bodies[i]) = recorded[i]

\* C1 amended: up to C steps after a body's creation, the read-out has one
\* entry per step, in order, and entry k is the position at the end of step
\* k rounded to single precision, as the Float32Array stores it.
C1_ReadOutIsRoundedHistory ==
    \A i \in 1..Len(bodies) :
        Steps(i) <= default_trail_length =>
            /\ Len(ReadOut(bodies[i])) = Steps(i)
            /\ \A k \in 1..Steps(i) : ReadOut(bodies[i])[k] = Point32(recorded[i][k])

\* A body whose trail has just become full, with an entry that rounding changed
C1_Witness ==
    \E i \in 1..Len(bodies) :
        /\ Steps(i) = default_trail_length
        /\ ReadOut(bodies[i]) # recorded[i]

\* C2 as stated: C + m steps after a body's creation (m > 0), the read-out
\* is the C positions of steps m+1 .. C+m, oldest first.
C2_WrappedReadOutIsPositions ==
    \A i \in 1..Len(bodies) :
        Steps(i) > default_trail_length =>
            ReadOut(bodies[i]) =
                [j \in 1..default_trail_length |->
                    recorded[i][Steps(i) - default_trail_length + j]]

\* C2 amended: C + m steps after a body's creation (m > 0), the read-out has
\* exactly C entries, and entry j is the position of step m + j rounded to
\* single precision: the oldest is that of step m+1, the newest that of
\* step C+m.
C2_WrappedReadOutIsRounded ==
    \A i \in 1..Len(bodies) :
        Steps(i) > default_trail_length =>
            /\ Len(ReadOut(bodies[i])) = default_trail_length
            /\ \A j \in 1..default_trail_length :
                  ReadOut(bodies[i])[j] =
                      Point32(recorded[i][Steps(i) - default_trail_length + j])

\* A body two steps past its trail's capacity
C2_Witness ==
    \E i \in 1..Len(bodies) :
        /\ Steps(i) = default_trail_length + 2
        /\ bodies[i].trailIndex = 2 % default_trail_length

\* C3 as stated: no body of the registry has a mass <= 0.
C3_MassPositive ==
    \A i \in 1..Len(bodies) : bodies[i].mass > 0

\* The field f of a body as createBodiesFromControls built it
FieldOf(body, f) ==
    CASE f = "posX" -> body.position[1]
      [] f = "posY" -> body.position[2]
      [] f = "posZ" -> body.position[3]
      [] f = "velX" -> body.velocity[1]
      [] f = "velY" -> body.velocity[2]
      [] f = "velZ" -> body.velocity[3]
      [] f = "mass" -> body.mass

\* C4 as stated: every field whose input parses to a number (0 included) is
\* created with exactly that number.
C4_ParsedInputIsUsed ==
    \A i \in 1..Len(created) : \A f \in Fields :
        ~ParseFloat(controls[i][f]).nan =>
            FieldOf(created[i], f) = ParseFloat(controls[i][f]).val

\* The list bs without its j-th body
Without(bs, j) == SubSeq(bs, 1, j - 1) \o SubSeq(bs, j + 1, Len(bs))

\* C5: a body b closer than 1 to a at the start of a step (squared distance
\* < 1, the distance 0 included) adds nothing to a's force: a leaves the
\* step with the velocity it would have had with b absent, and with its
\* velocity unchanged when every other body is that close.
C5_ClosePairAddsNothing ==
    Stepped =>
        \A i \in 1..Len(previous) :
            /\ \A j \in 1..Len(previous) \ {i} :
                  LengthSq(Vsub(previous[j].position, previous[i].position)) < FONE =>
                      bodies[i].velocity =
                          VelocityAfter(Without(previous, j), IF j < i THEN i - 1 ELSE i)
            /\ (\A j \in 1..Len(previous) \ {i} :
                  LengthSq(Vsub(previous[j].position, previous[i].position)) < FONE)
               => bodies[i].velocity = previous[i].velocity

\* Two bodies at the same place, and a step that left both velocities alone
C5_Witness ==
    /\ Stepped
    /\ Len(previous) = 2
    /\ previous[1].position = previous[2].position
    /\ previous[1].velocity # ZeroVector
    /\ bodies[1].velocity = previous[1].velocity
    /\ bodies[2].velocity = previous[2].velocity

\* The scenario's two bodies, one step after their creation
ScenarioStepped ==
    /\ created \in {<<ScenarioLeft, ScenarioRight>>, <<ScenarioRight, ScenarioLeft>>}
    /\ Steps(1) = 1

\* C6 as stated: after one step of the scenario both positions are unchanged.
C6_ScenarioPositionsUnchanged ==
    ScenarioStepped =>
        \A i \in 1..2 : bodies[i].position = created[i].position

\* C6 amended: after one step of the scenario the bodies have moved toward
\* each other along x by the same distance velocity * dt = 0.00294 (to the
\* rounding of the arithmetic), y and z staying 0.
C6_ScenarioPositionsMoved ==
    ScenarioStepped =>
        LET left  == IF created[1] = ScenarioLeft THEN 1 ELSE 2
            right == 3 - left
            moved == bodies[left].position[1] - created[left].position[1]
        IN  /\ moved > 0
            /\ MulDiv(moved, 100000, ONE) \in {293, 294}
            /\ bodies[right].position[1] = created[right].position[1] - moved
            /\ \A i \in 1..2 :
                  /\ bodies[i].position[2] = 0
                  /\ bodies[i].position[3] = 0
                  /\ bodies[i].position[1] =
                         created[i].position[1] + MulDiv(bodies[i].velocity[1], dt_num, dt_den)

C6_Witness ==
    /\ ScenarioStepped
    /\ bodies[1].position # created[1].position

\* C7 as stated: between two animation frames updatePhysics runs at most
\* once, and at most one frame callback is pending.
C7_OnceBetweenFrames ==
    /\ physicsCalls <= 1
    /\ Cardinality(pending) <= 1

\* C7 amended: an animation frame runs updatePhysics exactly once, every
\* start or reset runs it once more, at once and outside any frame, and at
\* every moment exactly one frame callback is pending, the one
\* animationFrameId names.
C7_OneLoop ==
    /\ pending = {animationFrameId}
    /\ frameCalls = (IF frames > 0 THEN 1 ELSE 0)
    /\ physicsCalls = frameCalls + kickoffs

\* A start or reset after a frame: two updatePhysics calls since that frame began
C7_Witness ==
    /\ frames > 0
    /\ kickoffs > 0
    /\ physicsCalls = 2

\* C8: in one step every velocity update reads the positions of the start of
\* the step, and every position then advances by the updated velocity
\* times dt, whatever the number and the order of the bodies.
C8_VelocitiesThenPositions ==
    Stepped =>
        \A i \in 1..Len(previous) :
            /\ bodies[i].velocity = VelocityAfter(previous, i)
            /\ bodies[i].position =
                   Vadd(previous[i].position,
                        << MulDiv(bodies[i].velocity[1], dt_num, dt_den),
                           MulDiv(bodies[i].velocity[2], dt_num, dt_den),
                           MulDiv(bodies[i].velocity[3], dt_num, dt_den) >>)

\* A step of three bodies in which the first one's velocity and position changed
C8_Witness ==
    /\ Stepped
    /\ Len(previous) = 3
    /\ bodies[1].velocity # previous[1].velocity
    /\ bodies[1].position # previous[1].position
    /\ bodies[3].velocity # previous[3].velocity

\* C9: trailIndex stays in 0..C-1 and trailPointsCount in 0..C; below C the
\* count equals trailIndex and slots 0..count-1 hold the points in the order
\* they were stored; a step advances trailIndex by 1 modulo C and the count
\* by 1 while it is below C.
C9_TrailBufferInvariant ==
    \A i \in 1..Len(bodies) :
        LET body == bodies[i]
        IN  /\ body.trailIndex \in 0..(default_trail_length - 1)
            /\ body.trailPointsCount \in 0..default_trail_length
            /\ body.trailPointsCount < default_trail_length =>
                  /\ body.trailIndex = body.trailPointsCount
                  /\ body.trailPointsCount = Steps(i)
                  /\ \A k \in 0..(body.trailPointsCount - 1) : \A c \in 1..3 :
                        body.trailPoints[3 * k + c] = Fround(recorded[i][k + 1][c])
            /\ Stepped =>
                  /\ body.trailIndex = (previous[i].trailIndex + 1) % default_trail_length
                  /\ body.trailPointsCount =
                         IF previous[i].trailPointsCount < default_trail_length
                         THEN previous[i].trailPointsCount + 1
                         ELSE default_trail_length

\* A step on a full trail: the count stayed at C and the index moved on
C9_Witness ==
    /\ Stepped
    /\ \E i \in 1..Len(bodies) :
          /\ previous[i].trailPointsCount = default_trail_length
          /\ previous[i].trailIndex = 0
          /\ bodies[i].trailPointsCount = default_trail_length
          /\ bodies[i].trailIndex = 1

\* C10: every createBodiesFromControls leaves exactly 3 bodies, each created
\* with an empty trail (count 0, index 0), and the read-out of a body holds
\* only points stored since that creation: its entries are the latest
\* min(steps, C) positions of the current run.
C10_TrailStartsEmptyEachRun ==
    /\ Len(created) = 3
    /\ Len(bodies) = 3
    /\ \A i \in 1..Len(created) :
          /\ created[i].trailPointsCount = 0
          /\ created[i].trailIndex = 0
          /\ created[i].drawRange = 0
    /\ \A i \in 1..Len(bodies) :
          LET n == Min(Steps(i), default_trail_length)
          IN  /\ Len(ReadOut(bodies[i])) = n
              /\ \A j \in 1..n :
                    ReadOut(bodies[i])[j] = Point32(recorded[i][Steps(i) - n + j])

\* Bodies created by a start or reset that came after a frame of an earlier
\* run, one step into their own run
C10_Witness ==
    /\ frames > 0
    /\ kickoffs > 0
    /\ Len(bodies) = 3
    /\ Steps(1) = 1
    /\ previous = created

=============================================================================
